---- MODULE Spec2Model ----
(***************************************************************************)
(* TWINE lightweight block cipher (package twine, twine.go).               *)
(*                                                                         *)
(* The model follows the Go source: New validates the key length and runs  *)
(* one of the two key schedules, filling the round keys rk[1..36]; Encrypt *)
(* and Decrypt unpack a source slice into 16 nibbles, run 36 Feistel       *)
(* rounds and pack the nibbles into the destination slice.  Go arrays are  *)
(* functions over 0..n-1 (the source's indexes); slices are sequences, so  *)
(* the Go element s[i] is s[i+1] here.  A byte is a number in 0..255.      *)
(***************************************************************************)
EXTENDS Integers, Sequences, FiniteSets, TLC

VARIABLES key, npc, tw, err, wk, rk, ki,
          cpc, op, sref, dref, src0, dst0, x, ri, heap, prev, ncalls

vars == <<key, npc, tw, err, wk, rk, ki,
          cpc, op, sref, dref, src0, dst0, x, ri, heap, prev, ncalls>>

newVars == <<key, npc, tw, err, wk, rk, ki>>

callVars == <<cpc, op, sref, dref, src0, dst0, x, ri, heap, prev, ncalls>>

(***************************************************************************)
(* Bounds of the model.                                                    *)
(***************************************************************************)
\* calls made one after the other on one instance by one caller
MaxCalls == 2

\* buffer lengths range over BlockSize-Slack .. BlockSize+Slack
Slack == 1

(***************************************************************************)
(* Byte arithmetic of Go's uint8.                                          *)
(***************************************************************************)
RECURSIVE XorW(_, _, _)
XorW(a, b, w) ==
    IF w = 0 THEN 0
    ELSE ((a + b) % 2) + 2 * XorW(a \div 2, b \div 2, w - 1)

RECURSIVE OrW(_, _, _)
OrW(a, b, w) ==
    IF w = 0 THEN 0
    ELSE (IF a % 2 = 1 \/ b % 2 = 1 THEN 1 ELSE 0) + 2 * OrW(a \div 2, b \div 2, w - 1)

RECURSIVE AndW(_, _, _)
AndW(a, b, w) ==
    IF w = 0 THEN 0
    ELSE (IF a % 2 = 1 /\ b % 2 = 1 THEN 1 ELSE 0) + 2 * AndW(a \div 2, b \div 2, w - 1)

\* a ^ b on bytes
Xor8(a, b) == XorW(a, b, 8)

\* a | b on bytes
Or8(a, b) == OrW(a, b, 8)

\* a & b on bytes
And8(a, b) == AndW(a, b, 8)

\* a >> n on bytes
Shr8(a, n) == a \div (2 ^ n)

\* a << n on bytes (the high bits fall off)
Shl8(a, n) == (a * (2 ^ n)) % 256

(***************************************************************************)
(* Constant tables.                                                        *)
(***************************************************************************)
Table(s) == [i \in 0..(Len(s) - 1) |-> s[i + 1]]

\* table 1
sbox == Table(<<12, 0, 15, 10, 2, 11, 9, 5, 8, 3, 13, 7, 1, 14, 6, 4>>)

\* table 2 with its first two entries exchanged
shufSwapped == Table(<<0, 5, 1, 4, 7, 12, 3, 8, 13, 6, 9, 2, 15, 10, 11, 14>>)

\* table 2
shuf == Table(<<5, 0, 1, 4, 7, 12, 3, 8, 13, 6, 9, 2, 15, 10, 11, 14>>)

\* the inverse table with its last two entries exchanged
shufinvSwapped == Table(<<1, 2, 11, 6, 3, 0, 9, 4, 7, 10, 13, 14, 5, 8, 12, 15>>)

shufinv == Table(<<1, 2, 11, 6, 3, 0, 9, 4, 7, 10, 13, 14, 5, 8, 15, 12>>)

\* table 3
roundconst == Table(<<0,
    1, 2, 4, 8, 16, 32, 3, 6, 12, 24, 48, 35, 5, 10, 20, 40, 19, 38,
    15, 30, 60, 59, 53, 41, 17, 34, 7, 14, 28, 56, 51, 37, 9, 18, 36, 11>>)

\* BlockSize()
BlockSize == 8

(***************************************************************************)
(* Key schedule.                                                           *)
(***************************************************************************)
\* the zero value of rk [37][8]byte
ZeroRk == [i \in 0..36 |-> [j \in 0..7 |-> 0]]

\* for i := 0; i < len(key); i++ { wk[2*i] = key[i] >> 4; wk[2*i+1] = key[i] & 0x0f }
RECURSIVE UnpackInto(_, _, _)
UnpackInto(a, s, i) ==
    IF i >= Len(s) THEN a
    ELSE UnpackInto([a EXCEPT ![2 * i] = Shr8(s[i + 1], 4),
                              ![2 * i + 1] = And8(s[i + 1], 15)], s, i + 1)

UnpackKey(k, n) == UnpackInto([h \in 0..(n - 1) |-> 0], k, 0)

\* the 80-bit positions with wk[2] in place of wk[3]
Tap80Off == Table(<<1, 2, 4, 6, 13, 14, 15, 16>>)

\* positions of wk copied to rk[i][0..7]
Tap80 == Table(<<1, 3, 4, 6, 13, 14, 15, 16>>)

Tap128 == Table(<<2, 3, 12, 15, 17, 18, 28, 31>>)

TapRow(w, tap) == [j \in 0..7 |-> w[tap[j]]]

\* wk[1] ^= sbox[wk[0]]; wk[4] ^= sbox[wk[16]]
MixKey80(w) ==
    LET w1 == [w EXCEPT ![1] = Xor8(w[1], sbox[w[0]])]
    IN  [w1 EXCEPT ![4] = Xor8(w1[4], sbox[w1[16]])]

\* the 128-bit mix without its third S-box XOR
MixKey128TwoOnly(w) ==
    LET w1 == [w EXCEPT ![1] = Xor8(w[1], sbox[w[0]])]
    IN  [w1 EXCEPT ![4] = Xor8(w1[4], sbox[w1[16]])]

\* wk[1] ^= sbox[wk[0]]; wk[4] ^= sbox[wk[16]]; wk[23] ^= sbox[wk[30]]
MixKey128(w) ==
    LET w1 == [w EXCEPT ![1] = Xor8(w[1], sbox[w[0]])]
        w2 == [w1 EXCEPT ![4] = Xor8(w1[4], sbox[w1[16]])]
    IN  [w2 EXCEPT ![23] = Xor8(w2[23], sbox[w2[30]])]

\* a forgotten shift: wk[7] ^= con
AddConstNoShift(w, i) ==
    LET con == roundconst[i]
        w1 == [w EXCEPT ![7] = Xor8(w[7], con)]
    IN  [w1 EXCEPT ![19] = Xor8(w1[19], And8(con, 7))]

\* con := roundconst[i]; wk[7] ^= con >> 3; wk[19] ^= con & 7
AddConst(w, i) ==
    LET con == roundconst[i]
        w1 == [w EXCEPT ![7] = Xor8(w[7], Shr8(con, 3))]
    IN  [w1 EXCEPT ![19] = Xor8(w1[19], And8(con, 7))]

\* for j := 0; j < n; j++ { wk[4j..4j+3] = wk[4j+4..4j+7] }
RECURSIVE ShiftDown(_, _, _)
ShiftDown(w, j, n) ==
    IF j >= n THEN w
    ELSE LET a == [w EXCEPT ![4 * j] = w[4 * j + 4]]
             b == [a EXCEPT ![4 * j + 1] = a[4 * j + 5]]
             c == [b EXCEPT ![4 * j + 2] = b[4 * j + 6]]
             d == [c EXCEPT ![4 * j + 3] = c[4 * j + 7]]
         IN  ShiftDown(d, j + 1, n)

\* tmp0..tmp3 := wk[0..3]; shift; wk[4n] = tmp1; wk[4n+1] = tmp2; wk[4n+2] = tmp3; wk[4n+3] = tmp0
RotateKey(w, n) ==
    LET s == ShiftDown(w, 0, n)
    IN  [s EXCEPT ![4 * n] = w[1], ![4 * n + 1] = w[2],
                  ![4 * n + 2] = w[3], ![4 * n + 3] = w[0]]

(***************************************************************************)
(* Block transform.                                                        *)
(***************************************************************************)
ZeroX == [h \in 0..15 |-> 0]

\* for j := 0; j < 8; j++ { x[2*j+1] ^= sbox[x[2*j]^t.rk[i][j]] }
RECURSIVE FeistelFrom(_, _, _)
FeistelFrom(v, row, j) ==
    IF j >= 8 THEN v
    ELSE FeistelFrom([v EXCEPT ![2 * j + 1] =
                          Xor8(v[2 * j + 1], sbox[Xor8(v[2 * j], row[j])])],
                     row, j + 1)

Feistel(v, row) == FeistelFrom(v, row, 0)

\* var xnext [16]byte; for h := 0; h < 16; h++ { xnext[tbl[h]] = x[h] }
RECURSIVE ScatterFrom(_, _, _, _)
ScatterFrom(tbl, v, h, acc) ==
    IF h >= 16 THEN acc
    ELSE ScatterFrom(tbl, v, h + 1, [acc EXCEPT ![tbl[h]] = v[h]])

Scatter(tbl, v) == ScatterFrom(tbl, v, 0, ZeroX)

\* dst[i] = x[2*i]<<4 | x[2*i+1]
PackByte(v, i) == Or8(Shl8(v[2 * i], 4), v[2 * i + 1])

\* the first n iterations of the store loop on the slice d
RECURSIVE PackInto(_, _, _, _)
PackInto(d, v, i, n) ==
    IF i >= n THEN d
    ELSE PackInto([d EXCEPT ![i + 1] = PackByte(v, i)], v, i + 1, n)

\* Encrypt: the block states <<x after unpack, x after round 1, ..., x after round n>>
RECURSIVE EncTrace(_, _, _)
EncTrace(rkk, s, n) ==
    IF n = 0 THEN <<UnpackInto(ZeroX, s, 0)>>
    ELSE LET tr == EncTrace(rkk, s, n - 1)
         IN  Append(tr, Scatter(shuf, Feistel(tr[n], rkk[n])))

\* Encrypt on 8-byte slices, run alone: the bytes left in dst
EncryptBlock(rkk, d, s) ==
    PackInto(d, Feistel(EncTrace(rkk, s, 35)[36], rkk[36]), 0, 8)

\* Decrypt: the block states <<x after unpack, x after round 36, ..., x after round 37-n>>
RECURSIVE DecTrace(_, _, _)
DecTrace(rkk, s, n) ==
    IF n = 0 THEN <<UnpackInto(ZeroX, s, 0)>>
    ELSE LET tr == DecTrace(rkk, s, n - 1)
         IN  Append(tr, Scatter(shufinv, Feistel(tr[n], rkk[37 - n])))

\* Decrypt on 8-byte slices, run alone: the bytes left in dst
DecryptBlock(rkk, d, s) ==
    PackInto(d, Feistel(DecTrace(rkk, s, 35)[36], rkk[1]), 0, 8)

(***************************************************************************)
(* Inputs.                                                                 *)
(***************************************************************************)
Key80TV == <<0, 17, 34, 51, 68, 85, 102, 119, 136, 153>>

Key128TV == <<0, 17, 34, 51, 68, 85, 102, 119, 136, 153, 170, 187, 204, 221, 238, 255>>

PlainTV == <<1, 35, 69, 103, 137, 171, 205, 239>>

Cipher80TV == <<124, 31, 15, 128, 177, 223, 156, 40>>

Cipher128TV == <<151, 159, 249, 179, 121, 181, 169, 184>>

Rep(n, b) == [i \in 1..n |-> b]

ValidKeys ==
    { Key80TV, Key128TV, Rep(10, 0), Rep(16, 255),
      <<254, 220, 186, 152, 118, 84, 50, 16, 15, 240>> }

InvalidKeys == { <<>>, Rep(9, 165), Rep(11, 90), Rep(17, 255) }

Keys == ValidKeys \cup InvalidKeys

Blocks == { PlainTV, Rep(8, 0), <<255, 128, 127, 1, 16, 240, 15, 170>> }

ConcBlocks == { PlainTV, Rep(8, 255) }

ConcKeys == { Key80TV, Key128TV }

Lens == (BlockSize - Slack)..(BlockSize + Slack)

Ops == {"enc", "dec"}

Refs == {"a", "b"}

Threads == {1, 2}

SeqThreads == {1}

\* the first n bytes of a block, then filler bytes
SrcBytes(p, n) == [i \in 1..n |-> IF i <= Len(p) THEN p[i] ELSE 165]

\* the content of a fresh destination buffer
DstBytes(n) == Rep(n, 238)

NoErr == -1

NoPrev == [op |-> "none", src |-> <<>>, out |-> <<>>, alias |-> FALSE]

(***************************************************************************)
(* New.                                                                    *)
(***************************************************************************)
Init ==
    /\ key \in Keys
    /\ npc = "New"
    /\ tw = "nil"
    /\ err = NoErr
    /\ wk = <<>>
    /\ rk = ZeroRk
    /\ ki = 0
    /\ cpc = [t \in Threads |-> "idle"]
    /\ op = [t \in Threads |-> "none"]
    /\ sref = [t \in Threads |-> "a"]
    /\ dref = [t \in Threads |-> "b"]
    /\ src0 = [t \in Threads |-> <<>>]
    /\ dst0 = [t \in Threads |-> <<>>]
    /\ x = [t \in Threads |-> ZeroX]
    /\ ri = [t \in Threads |-> 0]
    /\ heap = [t \in Threads |-> [r \in Refs |-> <<>>]]
    /\ prev = [t \in Threads |-> NoPrev]
    /\ ncalls = [t \in Threads |-> 0]

\* a range check in place of the two accepted sizes
ValidKeySizeRange(l) == l >= 10 /\ l <= 16

\* the sizes that pass `if l != 10 && l != 16`
ValidKeySize(l) == l = 10 \/ l = 16

\* l := len(key); the size check; tw := &twineCipher{}; switch l
NewCheck ==
    /\ npc = "New"
    /\ LET l == Len(key)
       IN  IF ~ValidKeySize(l)
           THEN /\ npc' = "returned"
                /\ err' = l
           ELSE /\ npc' = CASE l = 10 -> "unpack80"
                            [] l = 16 -> "unpack128"
                            [] OTHER  -> "return"
                /\ err' = err
    /\ UNCHANGED <<key, tw, wk, rk, ki>>
    /\ UNCHANGED callVars

\* return tw, nil
NewReturn ==
    /\ npc = "return"
    /\ npc' = "returned"
    /\ tw' = "tw"
    /\ UNCHANGED <<key, err, wk, rk, ki>>
    /\ UNCHANGED callVars

\* expandKeys80: var wk [20]byte and the unpack loop
Unpack80 ==
    /\ npc = "unpack80"
    /\ wk' = UnpackKey(key, 20)
    /\ ki' = 1
    /\ npc' = "tap80"
    /\ UNCHANGED <<key, tw, err, rk>>
    /\ UNCHANGED callVars

\* expandKeys80: t.rk[i][0..7] = wk[1], wk[3], ...
Tap80Step ==
    /\ npc = "tap80"
    /\ ki <= 35
    /\ rk' = [rk EXCEPT ![ki] = TapRow(wk, Tap80)]
    /\ npc' = "mix80"
    /\ UNCHANGED <<key, tw, err, wk, ki>>
    /\ UNCHANGED callVars

\* expandKeys80: the two S-box XORs
Mix80Step ==
    /\ npc = "mix80"
    /\ wk' = MixKey80(wk)
    /\ npc' = "con80"
    /\ UNCHANGED <<key, tw, err, rk, ki>>
    /\ UNCHANGED callVars

\* expandKeys80: the round constant
Con80Step ==
    /\ npc = "con80"
    /\ wk' = AddConst(wk, ki)
    /\ npc' = "rot80"
    /\ UNCHANGED <<key, tw, err, rk, ki>>
    /\ UNCHANGED callVars

\* expandKeys80: the rotation, then i++
Rot80Step ==
    /\ npc = "rot80"
    /\ wk' = RotateKey(wk, 4)
    /\ ki' = ki + 1
    /\ npc' = IF ki + 1 <= 35 THEN "tap80" ELSE "last80"
    /\ UNCHANGED <<key, tw, err, rk>>
    /\ UNCHANGED callVars

\* expandKeys80: t.rk[36][0..7], and the return (wk goes out of scope)
Last80Step ==
    /\ npc = "last80"
    /\ rk' = [rk EXCEPT ![36] = TapRow(wk, Tap80)]
    /\ wk' = <<>>
    /\ npc' = "return"
    /\ UNCHANGED <<key, tw, err, ki>>
    /\ UNCHANGED callVars

\* expandKeys128: var wk [32]byte and the unpack loop
Unpack128 ==
    /\ npc = "unpack128"
    /\ wk' = UnpackKey(key, 32)
    /\ ki' = 1
    /\ npc' = "tap128"
    /\ UNCHANGED <<key, tw, err, rk>>
    /\ UNCHANGED callVars

\* expandKeys128: t.rk[i][0..7] = wk[2], wk[3], ...
Tap128Step ==
    /\ npc = "tap128"
    /\ ki <= 35
    /\ rk' = [rk EXCEPT ![ki] = TapRow(wk, Tap128)]
    /\ npc' = "mix128"
    /\ UNCHANGED <<key, tw, err, wk, ki>>
    /\ UNCHANGED callVars

\* expandKeys128: the three S-box XORs
Mix128Step ==
    /\ npc = "mix128"
    /\ wk' = MixKey128(wk)
    /\ npc' = "con128"
    /\ UNCHANGED <<key, tw, err, rk, ki>>
    /\ UNCHANGED callVars

\* expandKeys128: the round constant
Con128Step ==
    /\ npc = "con128"
    /\ wk' = AddConst(wk, ki)
    /\ npc' = "rot128"
    /\ UNCHANGED <<key, tw, err, rk, ki>>
    /\ UNCHANGED callVars

\* expandKeys128: the rotation, then i++
Rot128Step ==
    /\ npc = "rot128"
    /\ wk' = RotateKey(wk, 7)
    /\ ki' = ki + 1
    /\ npc' = IF ki + 1 <= 35 THEN "tap128" ELSE "last128"
    /\ UNCHANGED <<key, tw, err, rk>>
    /\ UNCHANGED callVars

\* expandKeys128: t.rk[36][0..7], and the return (wk goes out of scope)
Last128Step ==
    /\ npc = "last128"
    /\ rk' = [rk EXCEPT ![36] = TapRow(wk, Tap128)]
    /\ wk' = <<>>
    /\ npc' = "return"
    /\ UNCHANGED <<key, tw, err, ki>>
    /\ UNCHANGED callVars

NewStep ==
    \/ NewCheck
    \/ NewReturn
    \/ Unpack80
    \/ Tap80Step
    \/ Mix80Step
    \/ Con80Step
    \/ Rot80Step
    \/ Last80Step
    \/ Unpack128
    \/ Tap128Step
    \/ Mix128Step
    \/ Con128Step
    \/ Rot128Step
    \/ Last128Step

(***************************************************************************)
(* Encrypt and Decrypt.  Each caller t owns two buffers, heap[t].a and     *)
(* heap[t].b; sref[t] and dref[t] name the buffers behind the src and dst  *)
(* slices of its call, and src and dst alias when they name the same one.  *)
(***************************************************************************)
Min(a, b) == IF a < b THEN a ELSE b

Prefix(s, n) == SubSeq(s, 1, Min(n, Len(s)))

\* the output buffer zeroed before the input is read
LoadBlockClearFirst(h, s, d) ==
    LET h1 == [h EXCEPT ![d] = Rep(Len(h[d]), 0)]
    IN  [heap |-> h1,
         x    |-> UnpackInto(ZeroX, Prefix(h1[s], 8), 0),
         ok   |-> Len(h1[s]) <= 8]

\* var x [16]byte; for i := 0; i < len(src); i++ { x[2*i] = ...; x[2*i+1] = ... }
\* x[16] does not exist: the ninth iteration panics (ok = FALSE)
LoadBlock(h, s, d) ==
    [heap |-> h,
     x    |-> UnpackInto(ZeroX, Prefix(h[s], 8), 0),
     ok   |-> Len(h[s]) <= 8]

\* for i := 0; i < 8; i++ { dst[i] = x[2*i]<<4 | x[2*i+1] }
\* dst[len(dst)] does not exist: the write after the last byte of a short dst panics
StoreBlock(h, d, v) ==
    [heap |-> [h EXCEPT ![d] = PackInto(h[d], v, 0, Min(8, Len(h[d])))],
     ok   |-> Len(h[d]) >= 8]

\* entry of Encrypt(dst, src) or Decrypt(dst, src) with the buffers of h
Begin(t, o, s, d, h) ==
    /\ cpc' = [cpc EXCEPT ![t] = "load"]
    /\ op' = [op EXCEPT ![t] = o]
    /\ sref' = [sref EXCEPT ![t] = s]
    /\ dref' = [dref EXCEPT ![t] = d]
    /\ src0' = [src0 EXCEPT ![t] = h[s]]
    /\ dst0' = [dst0 EXCEPT ![t] = h[d]]
    /\ x' = [x EXCEPT ![t] = ZeroX]
    /\ ri' = [ri EXCEPT ![t] = 0]
    /\ heap' = [heap EXCEPT ![t] = h]
    /\ ncalls' = [ncalls EXCEPT ![t] = ncalls[t] + 1]

\* the first call of caller t on the instance, with fresh buffers
FirstCall(t) ==
    /\ npc = "returned"
    /\ tw = "tw"
    /\ cpc[t] = "idle"
    /\ ncalls[t] < MaxCalls
    /\ \E o \in Ops, p \in Blocks, sl \in Lens, dl \in Lens, al \in BOOLEAN :
          /\ al => dl = sl
          /\ Begin(t, o, "a", IF al THEN "a" ELSE "b",
                   [r \in Refs |-> IF r = "a" THEN SrcBytes(p, sl) ELSE DstBytes(dl)])
    /\ UNCHANGED prev
    /\ UNCHANGED newVars

\* a later call of caller t, on the buffers the earlier call left
NextCall(t) ==
    /\ npc = "returned"
    /\ tw = "tw"
    /\ cpc[t] = "done"
    /\ ncalls[t] < MaxCalls
    /\ \E o \in Ops, s \in Refs, d \in Refs :
          Begin(t, o, s, d, heap[t])
    /\ prev' = [prev EXCEPT ![t] = [op    |-> op[t],
                                    src   |-> src0[t],
                                    out   |-> heap[t][dref[t]],
                                    alias |-> sref[t] = dref[t]]]
    /\ UNCHANGED newVars

\* a call of one of several callers sharing the instance, on 8-byte buffers
ConcCall(t) ==
    /\ npc = "returned"
    /\ tw = "tw"
    /\ cpc[t] = "idle"
    /\ \E o \in Ops, p \in ConcBlocks :
          Begin(t, o, "a", "b",
                [r \in Refs |-> IF r = "a" THEN p ELSE DstBytes(BlockSize)])
    /\ UNCHANGED prev
    /\ UNCHANGED newVars

\* the unpack loop of Encrypt and of Decrypt
Load(t) ==
    /\ cpc[t] = "load"
    /\ LET r == LoadBlock(heap[t], sref[t], dref[t])
       IN  /\ heap' = [heap EXCEPT ![t] = r.heap]
           /\ x' = [x EXCEPT ![t] = r.x]
           /\ cpc' = [cpc EXCEPT ![t] = IF r.ok THEN "round" ELSE "panic"]
           /\ ri' = [ri EXCEPT ![t] = IF ~r.ok THEN 0
                                      ELSE IF op[t] = "enc" THEN 1 ELSE 36]
    /\ UNCHANGED <<op, sref, dref, src0, dst0, prev, ncalls>>
    /\ UNCHANGED newVars

\* Encrypt writes its block state into the unused row 0 of the round keys
EncRoundScratch(t) ==
    /\ cpc[t] = "round"
    /\ op[t] = "enc"
    /\ ri[t] <= 35
    /\ x' = [x EXCEPT ![t] = Scatter(shuf, Feistel(x[t], rk[ri[t]]))]
    /\ ri' = [ri EXCEPT ![t] = ri[t] + 1]
    /\ rk' = [rk EXCEPT ![0] = [j \in 0..7 |-> x[t][j]]]
    /\ UNCHANGED <<cpc, op, sref, dref, src0, dst0, heap, prev, ncalls>>
    /\ UNCHANGED <<key, npc, tw, err, wk, ki>>

\* Encrypt: one iteration of `for i := 1; i <= 35; i++`
EncRound(t) ==
    /\ cpc[t] = "round"
    /\ op[t] = "enc"
    /\ ri[t] <= 35
    /\ x' = [x EXCEPT ![t] = Scatter(shuf, Feistel(x[t], rk[ri[t]]))]
    /\ ri' = [ri EXCEPT ![t] = ri[t] + 1]
    /\ UNCHANGED <<cpc, op, sref, dref, src0, dst0, heap, prev, ncalls>>
    /\ UNCHANGED newVars

\* Encrypt: the last round, i := 36
EncLast(t) ==
    /\ cpc[t] = "round"
    /\ op[t] = "enc"
    /\ ri[t] = 36
    /\ x' = [x EXCEPT ![t] = Feistel(x[t], rk[36])]
    /\ cpc' = [cpc EXCEPT ![t] = "store"]
    /\ UNCHANGED <<op, sref, dref, src0, dst0, ri, heap, prev, ncalls>>
    /\ UNCHANGED newVars

\* Decrypt: one iteration of `for i := 36; i >= 2; i--`
DecRound(t) ==
    /\ cpc[t] = "round"
    /\ op[t] = "dec"
    /\ ri[t] >= 2
    /\ x' = [x EXCEPT ![t] = Scatter(shufinv, Feistel(x[t], rk[ri[t]]))]
    /\ ri' = [ri EXCEPT ![t] = ri[t] - 1]
    /\ UNCHANGED <<cpc, op, sref, dref, src0, dst0, heap, prev, ncalls>>
    /\ UNCHANGED newVars

\* Decrypt: the last round, i := 1
DecLast(t) ==
    /\ cpc[t] = "round"
    /\ op[t] = "dec"
    /\ ri[t] = 1
    /\ x' = [x EXCEPT ![t] = Feistel(x[t], rk[1])]
    /\ cpc' = [cpc EXCEPT ![t] = "store"]
    /\ UNCHANGED <<op, sref, dref, src0, dst0, ri, heap, prev, ncalls>>
    /\ UNCHANGED newVars

\* the store loop of Encrypt and of Decrypt, and the return
Store(t) ==
    /\ cpc[t] = "store"
    /\ LET r == StoreBlock(heap[t], dref[t], x[t])
       IN  /\ heap' = [heap EXCEPT ![t] = r.heap]
           /\ cpc' = [cpc EXCEPT ![t] = IF r.ok THEN "done" ELSE "panic"]
    /\ UNCHANGED <<op, sref, dref, src0, dst0, x, ri, prev, ncalls>>
    /\ UNCHANGED newVars

Transform(t) ==
    \/ Load(t)
    \/ EncRound(t)
    \/ EncLast(t)
    \/ DecRound(t)
    \/ DecLast(t)
    \/ Store(t)

\* one caller, one call after the other
Next ==
    \/ NewStep
    \/ \E t \in SeqThreads : FirstCall(t)
    \/ \E t \in SeqThreads : NextCall(t)
    \/ \E t \in SeqThreads : Transform(t)

Spec == Init /\ [][Next]_vars

\* several callers sharing the instance, their steps interleaved
NextConc ==
    \/ NewStep
    \/ \E t \in Threads : ConcCall(t)
    \/ \E t \in Threads : Transform(t)

InitConc ==
    /\ Init
    /\ key \in ConcKeys

SpecConc == InitConc /\ [][NextConc]_vars

(***************************************************************************)
(* State of a call.                                                        *)
(***************************************************************************)
Out(t) == heap[t][dref[t]]

Aliased(t) == sref[t] = dref[t]

Nibble(v) == v \in 0..15

TypeOK ==
    /\ npc \in {"New", "return", "returned", "unpack80", "tap80", "mix80", "con80",
                "rot80", "last80", "unpack128", "tap128", "mix128", "con128",
                "rot128", "last128"}
    /\ \A t \in Threads : cpc[t] \in {"idle", "load", "round", "store", "done", "panic"}

(***************************************************************************)
(* Properties.                                                             *)
(***************************************************************************)
Ended(t) == cpc[t] \in {"done", "panic"}

\* the call of t is Decrypt on the 8 bytes that the Encrypt before it wrote
DecOfEnc(t) ==
    /\ cpc[t] = "done"
    /\ op[t] = "dec"
    /\ prev[t].op = "enc"
    /\ Len(prev[t].src) = BlockSize
    /\ src0[t] = prev[t].out

\* the call of t is Encrypt on the 8 bytes that the Decrypt before it wrote
EncOfDec(t) ==
    /\ cpc[t] = "done"
    /\ op[t] = "enc"
    /\ prev[t].op = "dec"
    /\ Len(prev[t].src) = BlockSize
    /\ src0[t] = prev[t].out

\* C1: for a valid key and an 8-byte block P, Decrypt of what Encrypt(P)
\* wrote, under the same instance, leaves P in the first 8 bytes of its
\* destination.
C1_DecryptInvertsEncrypt ==
    \A t \in Threads : DecOfEnc(t) => Prefix(Out(t), BlockSize) = prev[t].src

C1_Witness ==
    /\ DecOfEnc(1)
    /\ Prefix(Out(1), BlockSize) = prev[1].src
    /\ prev[1].out # prev[1].src

\* C2: for a valid key and an 8-byte block C, Encrypt of what Decrypt(C)
\* wrote, under the same instance, leaves C in the first 8 bytes of its
\* destination.
C2_EncryptInvertsDecrypt ==
    \A t \in Threads : EncOfDec(t) => Prefix(Out(t), BlockSize) = prev[t].src

C2_Witness ==
    /\ EncOfDec(1)
    /\ Prefix(Out(1), BlockSize) = prev[1].src
    /\ prev[1].out # prev[1].src

\* C3: under the 80-bit key 00 11 .. 99, Encrypt of 01 23 45 67 89 AB CD EF
\* writes 7C 1F 0F 80 B1 DF 9C 28, and Decrypt of that ciphertext writes the
\* plaintext.
C3_KnownAnswer80 ==
    key = Key80TV =>
        \A t \in Threads :
            cpc[t] = "done" =>
                /\ (op[t] = "enc" /\ src0[t] = PlainTV)
                       => Prefix(Out(t), BlockSize) = Cipher80TV
                /\ (op[t] = "dec" /\ src0[t] = Cipher80TV)
                       => Prefix(Out(t), BlockSize) = PlainTV

C3_Witness ==
    /\ key = Key80TV
    /\ cpc[1] = "done"
    /\ op[1] = "dec"
    /\ src0[1] = Cipher80TV
    /\ Out(1) = PlainTV
    /\ prev[1].op = "enc"
    /\ prev[1].src = PlainTV
    /\ prev[1].out = Cipher80TV

\* C4: under the 128-bit key 00 11 .. FF, Encrypt of 01 23 45 67 89 AB CD EF
\* writes 97 9F F9 B3 79 B5 A9 B8, and Decrypt of that ciphertext writes the
\* plaintext.
C4_KnownAnswer128 ==
    key = Key128TV =>
        \A t \in Threads :
            cpc[t] = "done" =>
                /\ (op[t] = "enc" /\ src0[t] = PlainTV)
                       => Prefix(Out(t), BlockSize) = Cipher128TV
                /\ (op[t] = "dec" /\ src0[t] = Cipher128TV)
                       => Prefix(Out(t), BlockSize) = PlainTV

C4_Witness ==
    /\ key = Key128TV
    /\ cpc[1] = "done"
    /\ op[1] = "dec"
    /\ src0[1] = Cipher128TV
    /\ Out(1) = PlainTV
    /\ prev[1].op = "enc"
    /\ prev[1].src = PlainTV
    /\ prev[1].out = Cipher128TV

\* C5: New returns an instance and no error exactly when the key has 10 or
\* 16 bytes; for any other length L it returns no instance and the key size
\* error L, and no key expansion has run (rk untouched, no round started).
C5_KeySizeChecked ==
    npc = "returned" =>
        IF Len(key) \in {10, 16}
        THEN tw = "tw" /\ err = NoErr
        ELSE /\ tw = "nil"
             /\ err = Len(key)
             /\ rk = ZeroRk
             /\ wk = <<>>
             /\ ki = 0

C5_Witness ==
    /\ npc = "returned"
    /\ Len(key) = 11
    /\ tw = "nil"
    /\ err = 11
    /\ ki = 0

\* the destination of a finished call of t equals that of the call run alone
AsAlone(t) ==
    Out(t) = IF op[t] = "enc" THEN EncryptBlock(rk, dst0[t], src0[t])
                              ELSE DecryptBlock(rk, dst0[t], src0[t])

\* C6: once New has returned the instance, no step of any interleaving of
\* Encrypt and Decrypt calls changes rk, and each of the concurrent calls on
\* its own buffers leaves the output of the same call run alone.
C6_InstanceImmutable ==
    /\ [][npc = "returned" => rk' = rk]_vars
    /\ [](\A t \in Threads : cpc[t] = "done" => AsAlone(t))

C6_Witness ==
    /\ cpc[1] = "done"
    /\ cpc[2] = "round"
    /\ ri[2] = 17
    /\ op[1] = "enc"
    /\ op[2] = "dec"
    /\ rk # ZeroRk
    /\ AsAlone(1)

\* the call of t has src and dst on one buffer, and the call before it was
\* the same operation on the same 8 bytes with a separate dst
AliasedRepeat(t) ==
    /\ cpc[t] = "done"
    /\ Aliased(t)
    /\ Len(src0[t]) = BlockSize
    /\ prev[t].op = op[t]
    /\ prev[t].src = src0[t]
    /\ ~prev[t].alias

\* C7: Encrypt (and Decrypt) with dst the same buffer as src leaves in that
\* buffer the 8 bytes that the same call writes to a separate dst.
C7_AliasedSameResult ==
    \A t \in Threads :
        AliasedRepeat(t) => Out(t) = Prefix(prev[t].out, BlockSize)

C7_Witness ==
    /\ AliasedRepeat(1)
    /\ op[1] = "dec"
    /\ Out(1) = Prefix(prev[1].out, BlockSize)
    /\ Out(1) # src0[1]

\* C8: a call with src longer than 8 bytes and dst of at least 8 bytes
\* completes, writes to dst[0..7] the result of the call on src[0..7], and
\* leaves the further bytes of dst as they were.
C8_LongSrcFirstBlock ==
    \A t \in Threads :
        (Ended(t) /\ Len(src0[t]) > BlockSize /\ Len(dst0[t]) >= BlockSize) =>
            /\ cpc[t] = "done"
            /\ Out(t) = IF op[t] = "enc"
                        THEN EncryptBlock(rk, dst0[t], Prefix(src0[t], BlockSize))
                        ELSE DecryptBlock(rk, dst0[t], Prefix(src0[t], BlockSize))

\* C9: a call with src shorter than 8 bytes, or with dst shorter than 8
\* bytes, ends in a failure and not in a normal return.
C9_ShortBufferFails ==
    \A t \in Threads :
        (Ended(t) /\ (Len(src0[t]) < BlockSize \/ Len(dst0[t]) < BlockSize)) =>
            cpc[t] = "panic"

\* C10: in every state of key expansion and of the block transforms, every
\* element of wk, every entry of rk[0..36][0..7] and every element of x is
\* in 0..15, and row 0 of rk is all zero.
C10_NibblesInRange ==
    /\ \A h \in DOMAIN wk : Nibble(wk[h])
    /\ \A i \in 0..36 : \A j \in 0..7 : Nibble(rk[i][j])
    /\ \A j \in 0..7 : rk[0][j] = 0
    /\ \A t \in Threads : \A h \in 0..15 : Nibble(x[t][h])

C10_Witness ==
    /\ npc = "returned"
    /\ Len(key) = 16
    /\ ki = 36
    /\ cpc[1] = "round"
    /\ ri[1] = 20
    /\ \E h \in 0..15 : x[1][h] = 15
    /\ \E i \in 1..36 : \E j \in 0..7 : rk[i][j] = 15

====
